---- MODULE Spec2Model ----
(***************************************************************************)
(* Model of dotagent/vectorstores/deeplake.py: the DeepLake adapter around *)
(* the Deep Lake vector engine.  One client drives one adapter: it         *)
(* constructs it (DeepLake(...) or DeepLake.from_texts(...)) and then      *)
(* calls add_texts, similarity_search, delete and delete_dataset.          *)
(*                                                                         *)
(* Python values are tagged records, so that None, strings, lists and      *)
(* objects can be compared with each other:                                *)
(*   None = [none |-> TRUE], "q" = [str |-> "q"], [..] = [list |-> <<..>>] *)
(***************************************************************************)
EXTENDS Integers, Sequences, FiniteSets, TLC

VARIABLES
    env,        \* the backend package: "ok", "missing" or "old" (version)
    pc,         \* where the client is: "new", "idle", "merge", "returned", "failed"
    self,       \* the adapter instance's attributes, None before construction
    ds,         \* the engine's dataset: [tensors, rows]
    call,       \* the API call in progress or just returned, with its arguments
    ret,        \* its outcome: [kind |-> "ok" | "exc" | "pending", ...]
    engineLog,  \* the engine calls made by the call, in order
    embedLog,   \* the embedding-provider calls made by the adapter itself
    loc         \* the local variables of _search while its merge loop runs

vars == <<env, pc, self, ds, call, ret, engineLog, embedLog, loc>>

-----------------------------------------------------------------------------
(* Bounds *)

\* most texts in one add_texts call, and most rows the dataset holds
MaxRows == 2

\* the default result count of similarity_search and _search
DefaultK == 4

-----------------------------------------------------------------------------
(* Python values *)

None == [none |-> TRUE]
Str(s) == [str |-> s]
List(l) == [list |-> l]
Bool(b) == [bool |-> b]

\* bool(v): None, "", [] and False are falsy, everything else is truthy
Truthy(v) ==
    CASE "none" \in DOMAIN v -> FALSE
      [] "str"  \in DOMAIN v -> v.str # ""
      [] "list" \in DOMAIN v -> v.list # <<>>
      [] "bool" \in DOMAIN v -> v.bool
      [] OTHER -> TRUE

\* a dict is a function from its keys to values
EmptyDict == [key \in {} |-> None]

\* d[k] = v
SetItem(d, k, v) == [key \in (DOMAIN d) \cup {k} |-> IF key = k THEN v ELSE d[key]]

\* an outcome: a returned value or a raised exception
Ok(v) == [kind |-> "ok", val |-> v]
Raise(e) == [kind |-> "exc", exc |-> e]
Pending == [kind |-> "pending"]

NoCall == [op |-> "none"]
NoLoc == [none |-> TRUE]

-----------------------------------------------------------------------------
(* The embedding provider (external): an Embeddings instance with          *)
(* embed_query and embed_documents, or a plain callable.                   *)

TextNames == <<"a", "b", "c", "d">>

\* the provider given at construction, and one passed at call time
Provider1 == [obj |-> "Embeddings", name |-> "E1"]
Provider2 == [obj |-> "Embeddings", name |-> "E2"]
\* a plain callable passed at call time; its output carries a batch dimension
Callable1 == [callable |-> "f"]

BoundMethod(o, m) == [method |-> m, of |-> o]

\* a list of floats of rank 1, written by who produced it and from what
Vector(who, text) == [type |-> "list", rank |-> 1, rows |-> <<[by |-> who, text |-> text]>>]

\* f(text) for an embedding function f
Apply(f, text) ==
    IF "method" \in DOMAIN f
    THEN Vector(f.of.name, text)
    ELSE [type |-> "list", rank |-> 2,
          rows |-> <<[by |-> f.callable, text |-> text], [by |-> f.callable, text |-> ""]>>]

-----------------------------------------------------------------------------
(* The vector engine (external): DeepLakeVectorStore                       *)

\* the tensors of a dataset written by an old release, and by a current one
TensorsLegacy == {"text", "metadata", "embedding", "ids"}
TensorsCurrent == {"text", "metadata", "embedding", "id"}

Min(a, b) == IF a < b THEN a ELSE b

\* the numbers of the engine-generated ids among the rows
GenUsed(rows) == {rows[i].id.gen : i \in {j \in 1..Len(rows) : "gen" \in DOMAIN rows[j].id}}

\* the i-th id the engine generates for n new rows: one no row has
FreshId(rows, n, i) ==
    LET free == (1..(Len(rows) + n)) \ GenUsed(rows)
    IN [gen |-> CHOOSE g \in free : Cardinality({x \in free : x < g}) = i - 1]

\* DeepLakeVectorStore(path, embedding_function, ...): opens or creates
EngineOpen(dsv, ef) == [fn |-> "open", embedding_function |-> ef]

\* vectorstore.tensors()
EngineTensors(dsv) == dsv.tensors

\* vectorstore.add(text, metadata, embedding_data, embedding_function,
\* return_ids=True, **kwargs): one row per text the engine read, its id the
\* caller's (under "ids" or "id") or a new one, its embedding that of the
\* embedding data the engine read for it, if any; returns the rows' ids
EngineAdd(dsv, a) ==
    LET given == IF "ids" \in DOMAIN a.kwargs THEN a.kwargs["ids"].list
                 ELSE IF "id" \in DOMAIN a.kwargs THEN a.kwargs["id"].list
                 ELSE <<>>
        new == [i \in 1..Len(a.text) |->
                   [id |-> IF i <= Len(given) THEN given[i] ELSE FreshId(dsv.rows, Len(a.text), i),
                    text |-> a.text[i],
                    metadata |-> IF i <= Len(a.metadata.list)
                                 THEN a.metadata.list[i] ELSE EmptyDict,
                    embedding |-> IF i <= Len(a.embedding_data)
                                  THEN Vector(a.embedding_function.of.name,
                                              a.embedding_data[i])
                                  ELSE None]]
    IN [ds |-> [dsv EXCEPT !.rows = dsv.rows \o new],
        ids |-> [i \in 1..Len(new) |-> new[i].id]]

\* vectorstore.search(embedding, k, ...,
\* return_tensors=["embedding", "metadata", "text"]): at most k rows, in the
\* engine's order, as positionally aligned columns
EngineSearch(dsv, k) ==
    LET n == Min(k, Len(dsv.rows))
    IN [score |-> [i \in 1..n |-> [score |-> i]],
        embedding |-> [i \in 1..n |-> dsv.rows[i].embedding],
        metadata |-> [i \in 1..n |-> dsv.rows[i].metadata],
        text |-> [i \in 1..n |-> dsv.rows[i].text]]

\* vectorstore.search(query=tql_query, exec_option): the rows the query selects
EngineQuery(dsv, tql) ==
    [metadata |-> [i \in 1..Len(dsv.rows) |-> dsv.rows[i].metadata],
     text |-> [i \in 1..Len(dsv.rows) |-> dsv.rows[i].text]]

\* vectorstore.delete(ids, filter, delete_all)
EngineDelete(dsv, ids, filter, delete_all) ==
    LET gone(r) ==
            IF Truthy(delete_all) THEN TRUE
            ELSE \/ /\ Truthy(ids)
                    /\ \E i \in 1..Len(ids.list) : ids.list[i] = r.id
                 \/ /\ filter # None
                    /\ \A key \in DOMAIN filter.dict :
                          key \in DOMAIN r.metadata /\ r.metadata[key] = filter.dict[key]
    IN [dsv EXCEPT !.rows = SelectSeq(dsv.rows, LAMBDA r : ~gone(r))]

-----------------------------------------------------------------------------
(* DeepLake.__init__ *)

ValueError(msg) == [type |-> "ValueError", msg |-> msg]
NameError(name) == [type |-> "NameError", msg |-> name]
AttributeError(name) == [type |-> "AttributeError", msg |-> name]

\* "ids" if "ids" in self.vectorstore.tensors() else "id"
IdTensorName(tensors) == IF "ids" \in tensors THEN "ids" ELSE "id"

\* DeepLake(dataset_path, embedding_function=ef): the outcome, the instance
\* and the engine calls made
DeepLakeInit(envv, dsv, ef) ==
    IF envv = "missing"
    THEN [ret |-> Raise(ValueError("import")), self |-> None, log |-> <<>>]
    ELSE IF envv = "old"
    THEN [ret |-> Raise(ValueError("version")), self |-> None, log |-> <<>>]
    ELSE LET inst == [vectorstore |-> "handle",
                      embedding_function |-> ef,
                      id_tensor_name |-> IdTensorName(EngineTensors(dsv))]
         IN [ret |-> Ok(inst), self |-> inst, log |-> <<EngineOpen(dsv, ef)>>]

-----------------------------------------------------------------------------
(* DeepLake.add_texts *)

\* an Iterable[str]: a list, or an iterator that can be run through once
TextList(n) == [kind |-> "list", items |-> [i \in 1..n |-> TextNames[i]]]
TextIter(n) == [kind |-> "iter", items |-> [i \in 1..n |-> TextNames[i]]]

\* list(texts), and texts after it: an iterator is left exhausted
ListOf(texts) == texts.items
AfterListOf(texts) == IF texts.kind = "iter" THEN [texts EXCEPT !.items = <<>>] ELSE texts

\* the orders in which the engine may read the arguments text and
\* embedding_data of its add
ReadOrders == {"text_first", "data_first"}

\* what the engine reads from text=texts and embedding_data=texts, one and
\* the same object: a list is read twice, an iterator gives its remaining
\* items to the argument read first and nothing to the other
ReadTwice(texts, order) ==
    IF texts.kind = "iter"
    THEN IF order = "text_first"
         THEN [text |-> texts.items, embedding_data |-> <<>>]
         ELSE [text |-> <<>>, embedding_data |-> texts.items]
    ELSE [text |-> texts.items, embedding_data |-> texts.items]

\* kwargs = {}; if ids: kwargs["ids" or "id"] = ids
IdKwargs(selfv, ids) ==
    IF Truthy(ids)
    THEN IF selfv.id_tensor_name = "ids"
         THEN SetItem(EmptyDict, "ids", ids)
         ELSE SetItem(EmptyDict, "id", ids)
    ELSE EmptyDict

\* kwargs.get(key)
DictGet(d, key) == IF key \in DOMAIN d THEN d[key] ELSE None

\* [{}] * len(list(texts))
DefaultMetadatas(texts) == List([i \in 1..Len(ListOf(texts)) |-> EmptyDict])

\* self.add_texts(texts, metadatas, ids), with the engine reading its
\* arguments in the given order: the outcome, the dataset after it and the
\* engine calls made, each with what the engine read
AddTexts(selfv, dsv, texts, metadatas, ids, order) ==
    LET kwargs == IdKwargs(selfv, ids)
        metas == IF metadatas = None THEN DefaultMetadatas(texts) ELSE metadatas
        rest == IF metadatas = None THEN AfterListOf(texts) ELSE texts
        read == ReadTwice(rest, order)
    IN IF ~Truthy(DictGet(kwargs, "embedding_function")) /\ selfv.embedding_function = None
       THEN [ret |-> Raise(AttributeError("embed_documents")), ds |-> dsv, log |-> <<>>]
       ELSE LET ef == IF Truthy(DictGet(kwargs, "embedding_function"))
                      THEN DictGet(kwargs, "embedding_function")
                      ELSE BoundMethod(selfv.embedding_function, "embed_documents")
                a == [fn |-> "add",
                      text |-> read.text,
                      metadata |-> metas,
                      embedding_data |-> read.embedding_data,
                      same_object |-> TRUE,
                      embedding_tensor |-> "embedding",
                      embedding_function |-> ef,
                      return_ids |-> TRUE,
                      kwargs |-> kwargs]
                e == EngineAdd(dsv, a)
            IN [ret |-> Ok(List(e.ids)), ds |-> e.ds, log |-> <<a>>]

-----------------------------------------------------------------------------
(* DeepLake.from_texts *)

\* the names the body of from_texts can read: its parameters and local, and
\* the names the module defines or imports
FromTextsScope ==
    {"cls", "texts", "embedding_function", "metadatas", "ids", "dataset_path",
     "kwargs", "deeplake_dataset",
     "logging", "Any", "Callable", "Dict", "Iterable", "List", "Optional",
     "Tuple", "Union", "np", "deeplake", "version_compare",
     "DeepLakeVectorStore", "Document", "Embeddings", "VectorStore", "logger",
     "DEFAULT_DATASET_PATH", "DeepLake"}

\* DeepLake.from_texts(texts, embedding_function=ef, metadatas, ids,
\* embedding=legacy): the outcome, the dataset, the engine calls and how many
\* add_texts calls were made
FromTexts(envv, dsv, texts, ef, metadatas, ids, legacy, order) ==
    IF Truthy(legacy)
    THEN [ret |-> Raise(ValueError("deprecated")), self |-> None, ds |-> dsv,
          log |-> <<>>, adds |-> 0]
    ELSE LET c == DeepLakeInit(envv, dsv, ef)
         IN IF c.ret.kind = "exc"
            THEN [ret |-> c.ret, self |-> None, ds |-> dsv, log |-> c.log, adds |-> 0]
            ELSE IF "embedding" \notin FromTextsScope
            THEN [ret |-> Raise(NameError("embedding")), self |-> None, ds |-> dsv,
                  log |-> c.log, adds |-> 0]
            ELSE LET a == AddTexts(c.self, dsv, texts, metadatas, ids, order)
                 IN IF a.ret.kind = "exc"
                    THEN [ret |-> a.ret, self |-> None, ds |-> a.ds,
                          log |-> c.log \o a.log, adds |-> 1]
                    ELSE [ret |-> Ok(c.self), self |-> c.self, ds |-> a.ds,
                          log |-> c.log \o a.log, adds |-> 1]

-----------------------------------------------------------------------------
(* DeepLake._search_tql, DeepLake._search and DeepLake.similarity_search *)

Document(text, metadata) == [type |-> "Document", page_content |-> text, metadata |-> metadata]
Tuple2(a, b) == [type |-> "tuple", first |-> a, second |-> b]

\* [Document(page_content=text, metadata=metadata)
\*  for text, metadata in zip(texts, metadatas)]
ZipDocs(texts, metadatas) ==
    [i \in 1..Min(Len(texts), Len(metadatas)) |-> Document(texts[i], metadatas[i])]

\* SearchTql without the check of return_score
SearchTql_NoScoreCheck(dsv, tql_query, return_score) ==
    LET q == [fn |-> "search", query |-> tql_query]
        result == EngineQuery(dsv, tql_query)
    IN [ret |-> Ok(List(ZipDocs(result.text, result.metadata))), log |-> <<q>>]

\* self._search_tql(tql_query, exec_option, return_score)
SearchTql(dsv, tql_query, return_score) ==
    LET q == [fn |-> "search", query |-> tql_query]
        result == EngineQuery(dsv, tql_query)
        docs == ZipDocs(result.text, result.metadata)
    IN IF Truthy(return_score)
       THEN [ret |-> Raise(ValueError("tql_scores")), log |-> <<q>>]
       ELSE [ret |-> Ok(List(docs)), log |-> <<q>>]

\* the embedding function _search uses: the one passed in, else the
\* provider's embed_query, else None
ResolveEmbeddingFunction(selfv, embedding_function) ==
    IF Truthy(embedding_function)
    THEN IF "obj" \in DOMAIN embedding_function
         THEN BoundMethod(embedding_function, "embed_query")
         ELSE embedding_function
    ELSE IF Truthy(selfv.embedding_function)
    THEN BoundMethod(selfv.embedding_function, "embed_query")
    ELSE None

\* SearchSelf with the resolved function stored on the instance
SearchSelf_Stores(selfv, f) == [selfv EXCEPT !.embedding_function = f]

\* the instance after _search resolved f: the function is bound to the local
\* name _embedding_function, and no attribute of self is assigned
SearchSelf(selfv, f) == selfv

\* _embedding_function(query) if query else None
QueryEmbedding(f, query) == IF Truthy(query) THEN Apply(f, query.str) ELSE None

\* a list becomes a float32 array, and one of rank > 1 its first row
Normalize(embedding) ==
    IF embedding # None /\ embedding.type = "list"
    THEN IF embedding.rank > 1
         THEN [type |-> "ndarray", rank |-> 1, rows |-> <<embedding.rows[1]>>]
         ELSE [embedding EXCEPT !.type = "ndarray"]
    ELSE embedding

\* the local variables of _search after the engine's search returned: the
\* result columns, the metadata dicts as objects on a heap (the list holds
\* references), and the number of iterations the merge loop has run
SearchLocals(result, return_score) ==
    [scores |-> result.score,
     embeddings |-> result.embedding,
     texts |-> result.text,
     metadatas |-> [i \in 1..Len(result.metadata) |-> i],
     heap |-> result.metadata,
     i |-> 0,
     return_score |-> return_score]

\* self._search(query, embedding, k, **kw) up to the engine's search: an
\* outcome, or the locals the merge loop starts from; and self after it
Search(selfv, dsv, query, embedding, k, kw) ==
    LET return_score == IF "return_score" \in DOMAIN kw THEN kw["return_score"] ELSE Bool(TRUE)
        f == ResolveEmbeddingFunction(selfv, DictGet(kw, "embedding_function"))
    IN IF Truthy(DictGet(kw, "tql_query"))
       THEN LET t == SearchTql(dsv, kw["tql_query"], return_score)
            IN [ret |-> t.ret, log |-> t.log, embeds |-> <<>>, loc |-> NoLoc,
                self |-> selfv]
       ELSE IF embedding = None /\ f = None
       THEN [ret |-> Raise(ValueError("needs_embedding")), log |-> <<>>,
             embeds |-> <<>>, loc |-> NoLoc, self |-> SearchSelf(selfv, f)]
       ELSE LET e == IF embedding = None THEN QueryEmbedding(f, query) ELSE embedding
                s == [fn |-> "search", embedding |-> Normalize(e), k |-> k]
            IN [ret |-> Pending,
                log |-> <<s>>,
                embeds |-> IF embedding = None /\ Truthy(query)
                           THEN <<[f |-> f, text |-> query.str]>> ELSE <<>>,
                loc |-> SearchLocals(EngineSearch(dsv, k), return_score),
                self |-> SearchSelf(selfv, f)]

\* for meta, embed in zip(metadatas, embeddings): whether zip yields a pair.
\* The list iterator reads the list as it is now, appended entries included.
ZipHasNext(l) == l.i < Len(l.metadatas) /\ l.i < Len(l.embeddings)

\* MergeBody binding every mapping to the first embedding
MergeBody_FirstEmbedding(l) ==
    LET meta == l.metadatas[l.i + 1]
    IN [l EXCEPT !.heap[meta] = SetItem(@, "embedding", l.embeddings[1]),
                 !.metadatas = Append(@, meta),
                 !.i = @ + 1]

\* meta['embedding'] = embed; metadatas.append(meta)
MergeBody(l) ==
    LET meta == l.metadatas[l.i + 1]
        embed == l.embeddings[l.i + 1]
    IN [l EXCEPT !.heap[meta] = SetItem(@, "embedding", embed),
                 !.metadatas = Append(@, meta),
                 !.i = @ + 1]

\* the rest of _search: the documents, paired with the scores if asked
SearchResult(l) ==
    LET docs == ZipDocs(l.texts, [j \in 1..Len(l.metadatas) |-> l.heap[l.metadatas[j]]])
    IN IF Truthy(l.return_score)
       THEN Ok(List([j \in 1..Min(Len(docs), Len(l.scores)) |-> Tuple2(docs[j], l.scores[j])]))
       ELSE Ok(List(docs))

\* InvalidSearchArgs without its second case: both arguments given is let through
InvalidSearchArgs_NeitherOnly(query, embedding) ==
    embedding = None /\ query = None

\* embedding is None and query is None, or neither is
InvalidSearchArgs(query, embedding) ==
    \/ embedding = None /\ query = None
    \/ embedding # None /\ query # None

\* self.similarity_search(query, embedding, k, **kw) up to the engine's search
SimilaritySearch(selfv, dsv, query, embedding, k, kw) ==
    IF InvalidSearchArgs(query, embedding)
    THEN [ret |-> Raise(ValueError("either")), log |-> <<>>, embeds |-> <<>>, loc |-> NoLoc,
          self |-> selfv]
    ELSE Search(selfv, dsv, query, embedding, k, kw)

-----------------------------------------------------------------------------
(* DeepLake.delete and DeepLake.delete_dataset *)

\* self.delete(ids, filter, delete_all)
Delete(dsv, ids, filter, delete_all) ==
    [ret |-> Ok(Bool(TRUE)),
     ds |-> EngineDelete(dsv, ids, filter, delete_all),
     log |-> <<[fn |-> "delete", ids |-> ids, filter |-> filter, delete_all |-> delete_all]>>]

\* the path of the dataset the adapter opens, and the path of another one
DatasetPath == "./deeplake/"
OtherPath == "./other/"

\* DeepLake.force_delete_by_path(path): imports deeplake or raises, and
\* deletes the dataset at path
ForceDeleteByPath(envv, dsv, path) ==
    IF envv = "missing"
    THEN [ret |-> Raise(ValueError("import")), ds |-> dsv, log |-> <<>>]
    ELSE [ret |-> Ok(None),
          ds |-> IF path = DatasetPath THEN [dsv EXCEPT !.rows = <<>>] ELSE dsv,
          log |-> <<[fn |-> "deeplake.delete", path |-> path, large_ok |-> TRUE,
                     force |-> TRUE]>>]

-----------------------------------------------------------------------------
(* The inputs of the calls *)

PathInputs == {DatasetPath, OtherPath}

Providers == {None, Provider1}

Lengths(dsv) == 0..(MaxRows - Len(dsv.rows))

TextInputs(n) == {TextList(n), TextIter(n)}

MetadataInputs(n) ==
    {None,
     List([i \in 1..n |-> EmptyDict]),
     List([i \in 1..n |-> SetItem(EmptyDict, "source", Str(TextNames[i]))])}

IdInputs(n) == {None, List(<<>>), List([i \in 1..n |-> [given |-> i]])}

QueryInputs == {None, Str(""), Str("q")}

EmbeddingInputs ==
    {None,
     [type |-> "list", rank |-> 1, rows |-> <<[by |-> "caller", text |-> "v"]>>],
     [type |-> "list", rank |-> 2,
      rows |-> <<[by |-> "caller", text |-> "v"], [by |-> "caller", text |-> "w"]>>]}

KInputs == {1, DefaultK}

RECURSIVE DictOf(_, _)
\* the dict with the keys of `keys` that opt binds to a value
DictOf(keys, opt) ==
    IF keys = {} THEN EmptyDict
    ELSE LET key == CHOOSE x \in keys : TRUE
             d == DictOf(keys \ {key}, opt)
         IN IF "absent" \in DOMAIN opt[key] THEN d ELSE SetItem(d, key, opt[key])

Absent == [absent |-> TRUE]

\* the extra options of similarity_search
KwargInputs ==
    {DictOf({"embedding_function", "return_score", "tql_query"},
            [embedding_function |-> ef, return_score |-> rs, tql_query |-> tql]) :
        ef \in {Absent, Provider2, Callable1},
        rs \in {Absent, Bool(TRUE), Bool(FALSE)},
        tql \in {Absent, Str(""), Str("SELECT")}}

\* no ids, or the id of the row added last
DeleteIdInputs(dsv) ==
    {None} \cup {List(<<dsv.rows[i].id>>) : i \in {Len(dsv.rows)} \ {0}}

\* no filter, or one on a source no text has
FilterInputs == {None, [dict |-> SetItem(EmptyDict, "source", Str("none"))]}

-----------------------------------------------------------------------------
(* The client's steps *)

Init ==
    /\ env \in {"ok", "missing", "old"}
    /\ pc = "new"
    /\ self = None
    /\ ds \in {[tensors |-> t, rows |-> <<>>] : t \in {TensorsLegacy, TensorsCurrent}}
    /\ call = NoCall
    /\ ret = Pending
    /\ engineLog = <<>>
    /\ embedLog = <<>>
    /\ loc = NoLoc

\* DeepLake(dataset_path, embedding_function=ef)
Construct ==
    /\ pc = "new"
    /\ \E ef \in Providers :
          LET c == DeepLakeInit(env, ds, ef)
          IN /\ call' = [op |-> "__init__", embedding_function |-> ef]
             /\ ret' = c.ret
             /\ self' = c.self
             /\ engineLog' = c.log
             /\ pc' = IF c.ret.kind = "ok" THEN "returned" ELSE "failed"
    /\ UNCHANGED <<env, ds, embedLog, loc>>

\* DeepLake.from_texts(texts, embedding_function, metadatas, ids, **kwargs)
CallFromTexts ==
    /\ pc = "new"
    /\ \E n \in Lengths(ds), ef \in Providers, legacy \in {Absent, Provider1},
          order \in ReadOrders :
       \E texts \in TextInputs(n), metadatas \in MetadataInputs(n), ids \in IdInputs(n) :
          LET r == FromTexts(env, ds, texts, ef, metadatas, ids,
                             IF legacy = Absent THEN None ELSE legacy, order)
          IN /\ call' = [op |-> "from_texts", texts |-> texts, embedding_function |-> ef,
                         metadatas |-> metadatas, ids |-> ids, embedding |-> legacy,
                         adds |-> r.adds]
             /\ ret' = r.ret
             /\ self' = r.self
             /\ ds' = r.ds
             /\ engineLog' = r.log
             /\ pc' = IF r.ret.kind = "ok" THEN "returned" ELSE "failed"
    /\ UNCHANGED <<env, embedLog, loc>>

\* self.add_texts(texts, metadatas, ids)
CallAddTexts ==
    /\ pc = "idle"
    /\ \E n \in Lengths(ds), order \in ReadOrders :
       \E texts \in TextInputs(n), metadatas \in MetadataInputs(n), ids \in IdInputs(n) :
          LET r == AddTexts(self, ds, texts, metadatas, ids, order)
          IN /\ call' = [op |-> "add_texts", texts |-> texts, metadatas |-> metadatas,
                         ids |-> ids]
             /\ ret' = r.ret
             /\ ds' = r.ds
             /\ engineLog' = r.log
    /\ pc' = "returned"
    /\ UNCHANGED <<env, self, embedLog, loc>>

\* self.similarity_search(query, embedding, k, **kw), up to its return or to
\* the start of the merge loop of _search
CallSimilaritySearch ==
    /\ pc = "idle"
    /\ \E query \in QueryInputs, embedding \in EmbeddingInputs, k \in KInputs,
          kw \in KwargInputs :
          LET r == SimilaritySearch(self, ds, query, embedding, k, kw)
          IN /\ call' = [op |-> "similarity_search", query |-> query,
                         embedding |-> embedding, k |-> k, kw |-> kw]
             /\ ret' = r.ret
             /\ engineLog' = r.log
             /\ embedLog' = r.embeds
             /\ loc' = r.loc
             /\ self' = r.self
             /\ pc' = IF r.ret.kind = "pending" THEN "merge" ELSE "returned"
    /\ UNCHANGED <<env, ds>>

\* one iteration of the merge loop of _search
MergeStep ==
    /\ pc = "merge"
    /\ ZipHasNext(loc)
    /\ loc' = MergeBody(loc)
    /\ UNCHANGED <<env, pc, self, ds, call, ret, engineLog, embedLog>>

\* the loop ends; _search builds the documents and returns
MergeDone ==
    /\ pc = "merge"
    /\ ~ZipHasNext(loc)
    /\ ret' = SearchResult(loc)
    /\ pc' = "returned"
    /\ UNCHANGED <<env, self, ds, call, engineLog, embedLog, loc>>

\* self.delete(ids, filter, delete_all)
CallDelete ==
    /\ pc = "idle"
    /\ \E ids \in DeleteIdInputs(ds), filter \in FilterInputs,
          delete_all \in {None, Bool(TRUE)} :
          LET r == Delete(ds, ids, filter, delete_all)
          IN /\ call' = [op |-> "delete", ids |-> ids, filter |-> filter,
                         delete_all |-> delete_all]
             /\ ret' = r.ret
             /\ ds' = r.ds
             /\ engineLog' = r.log
    /\ pc' = "returned"
    /\ UNCHANGED <<env, self, embedLog, loc>>

\* self.delete_dataset(): self.delete(delete_all=True), and returns None
CallDeleteDataset ==
    /\ pc = "idle"
    /\ LET r == Delete(ds, None, None, Bool(TRUE))
       IN /\ call' = [op |-> "delete_dataset"]
          /\ ret' = Ok(None)
          /\ ds' = r.ds
          /\ engineLog' = r.log
    /\ pc' = "returned"
    /\ UNCHANGED <<env, self, embedLog, loc>>

\* DeepLake.force_delete_by_path(path): a class method, called with or
\* without an adapter
CallForceDeleteByPath ==
    /\ pc \in {"new", "idle", "failed"}
    /\ \E path \in PathInputs :
          LET r == ForceDeleteByPath(env, ds, path)
          IN /\ call' = [op |-> "force_delete_by_path", path |-> path, at |-> pc]
             /\ ret' = r.ret
             /\ ds' = r.ds
             /\ engineLog' = r.log
    /\ pc' = "returned"
    /\ UNCHANGED <<env, self, embedLog, loc>>

\* the caller has the outcome of the call and goes on: with the adapter, or
\* where it was when it called a class method without one
Return ==
    /\ pc = "returned"
    /\ pc' = IF call.op = "force_delete_by_path" THEN call.at ELSE "idle"
    /\ call' = NoCall
    /\ ret' = Pending
    /\ engineLog' = <<>>
    /\ embedLog' = <<>>
    /\ loc' = NoLoc
    /\ UNCHANGED <<env, self, ds>>

Next ==
    \/ Construct
    \/ CallFromTexts
    \/ CallAddTexts
    \/ CallSimilaritySearch
    \/ MergeStep
    \/ MergeDone
    \/ CallDelete
    \/ CallDeleteDataset
    \/ CallForceDeleteByPath
    \/ Return

Spec == Init /\ [][Next]_vars

\* the interpreter goes on running a loop it has entered, and returns from it
FairSpec == Spec /\ WF_vars(MergeStep) /\ WF_vars(MergeDone)

-----------------------------------------------------------------------------
(* Properties *)

\* the number of texts of the call's texts argument
NTexts == Len(call.texts.items)

\* C1: a from_texts call with no legacy 'embedding' option and an available
\* backend opens the dataset, makes exactly one add_texts call with the given
\* texts, metadatas and ids, and returns the adapter it constructed; it does
\* not end in an error of the adapter's own.
C1_FromTextsAddsOnceAndReturns ==
    (call.op = "from_texts" /\ call.embedding = Absent /\ env = "ok"
        /\ call.embedding_function # None /\ NTexts > 0)
    => /\ ret.kind = "ok"
       /\ call.adds = 1
       /\ ret.val = self
       /\ Len(engineLog) = 2
       /\ engineLog[1].fn = "open"
       /\ engineLog[2].fn = "add"

\* C2: similarity_search with neither query nor embedding, or with both,
\* raises ValueError before any call to the embedding provider or to the
\* engine, and the dataset is unchanged.
C2_InvalidArgsRaiseFirst ==
    [][(pc = "idle" /\ call'.op = "similarity_search"
          /\ ((call'.query = None /\ call'.embedding = None)
              \/ (call'.query # None /\ call'.embedding # None)))
       => /\ ret' = Raise(ValueError("either"))
          /\ engineLog' = <<>>
          /\ embedLog' = <<>>
          /\ ds' = ds
          /\ pc' = "returned"]_vars

\* a similarity_search call given both a query and an embedding, on a dataset
\* with rows, has raised
C2_Witness ==
    /\ pc = "returned"
    /\ call.op = "similarity_search"
    /\ call.query = Str("q")
    /\ call.embedding # None
    /\ Len(ds.rows) > 0
    /\ ret.kind = "exc"

\* the documents the engine's rows for the call make: the i-th has the i-th
\* row's text and its metadata plus the key 'embedding'
C3_Expected ==
    [i \in 1..Min(call.k, Len(ds.rows)) |->
        [type |-> "Document",
         page_content |-> ds.rows[i].text,
         metadata |-> [key \in (DOMAIN ds.rows[i].metadata) \cup {"embedding"} |->
                          IF key = "embedding" THEN ds.rows[i].embedding
                          ELSE ds.rows[i].metadata[key]]]]

\* C3: similarity_search(embedding=e, k=k), with no query, no raw query and
\* no other option, returns a list of exactly n Documents for the n <= k rows
\* of the engine, in the engine's order, the i-th with the i-th row's text and
\* its metadata plus 'embedding' bound to the row's embedding.
C3_EmbeddingSearchReturnsDocuments ==
    (pc = "returned" /\ call.op = "similarity_search"
        /\ call.query = None /\ call.embedding # None /\ call.kw = EmptyDict)
    => /\ ret.kind = "ok"
       /\ ret.val = List(C3_Expected)

\* whether the search of the call asks for scores: return_score as _search
\* binds it, True when not passed
C4_ScoresRequested ==
    IF "return_score" \in DOMAIN call.kw THEN call.kw["return_score"].bool ELSE TRUE

\* C4: a search that carries a non-empty raw-query string ends in ValueError
\* and returns no documents when scores are requested, and otherwise returns
\* one Document per result row, built from the row's text and metadata.
C4_RawQueryScores ==
    (pc = "returned" /\ call.op = "similarity_search"
        /\ (call.query = None) # (call.embedding = None)
        /\ "tql_query" \in DOMAIN call.kw /\ call.kw["tql_query"].str # "")
    => IF C4_ScoresRequested
       THEN ret = Raise(ValueError("tql_scores"))
       ELSE ret = Ok(List([i \in 1..Len(ds.rows) |->
                              [type |-> "Document",
                               page_content |-> ds.rows[i].text,
                               metadata |-> ds.rows[i].metadata]]))

\* a raw-query search asking for scores has raised on a dataset with rows
C4_Witness ==
    /\ pc = "returned"
    /\ call.op = "similarity_search"
    /\ DictGet(call.kw, "tql_query") = Str("SELECT")
    /\ DictGet(call.kw, "return_score") = Bool(TRUE)
    /\ Len(ds.rows) > 0
    /\ ret = Raise(ValueError("tql_scores"))

\* C5: add_texts with N texts (a list or a one-shot iterator) and no ids, with
\* metadatas given or omitted, returns exactly N ids, the i-th the id of the
\* row of the i-th text.
C5_AddTextsReturnsNIds ==
    (pc = "returned" /\ call.op = "add_texts" /\ call.ids = None
        /\ self.embedding_function # None)
    => /\ ret.kind = "ok"
       /\ Len(ret.val.list) = NTexts
       /\ \A i \in 1..NTexts :
             \E j \in 1..Len(ds.rows) :
                /\ ds.rows[j].id = ret.val.list[i]
                /\ ds.rows[j].text = call.texts.items[i]

\* C6: add_texts with metadatas omitted hands the engine what it hands it with
\* N empty mappings, the N texts as text and as embedding data and N empty
\* metadata mappings, and returns N ids.
C6_OmittedMetadatasAsEmpty ==
    (pc = "returned" /\ call.op = "add_texts" /\ call.metadatas = None
        /\ self.embedding_function # None)
    => /\ ret.kind = "ok"
       /\ Len(engineLog) = 1
       /\ engineLog[1].text = call.texts.items
       /\ engineLog[1].embedding_data = call.texts.items
       /\ engineLog[1].metadata = List([i \in 1..NTexts |-> EmptyDict])
       /\ Len(ret.val.list) = NTexts

\* the embedding function the call resolves to: the one passed at call time
\* over the provider from construction
C7_Resolved ==
    LET over == DictGet(call.kw, "embedding_function")
    IN IF over # None
       THEN IF "obj" \in DOMAIN over THEN BoundMethod(over, "embed_query") ELSE over
       ELSE IF self.embedding_function # None
       THEN BoundMethod(self.embedding_function, "embed_query")
       ELSE None

\* C7: a vector search given a query text and no embedding invokes the engine
\* with the resolved function's embedding of the query text, never with a
\* missing embedding; if no function resolves it raises ValueError without
\* invoking the engine.
C7_QueryIsEmbedded ==
    (call.op = "similarity_search" /\ call.query # None /\ call.embedding = None
        /\ ~Truthy(DictGet(call.kw, "tql_query")))
    => IF C7_Resolved # None
       THEN engineLog = <<[fn |-> "search",
                           embedding |-> Normalize(Apply(C7_Resolved, call.query.str)),
                           k |-> call.k]>>
       ELSE ret = Raise(ValueError("needs_embedding")) /\ engineLog = <<>>

\* the id field name construction resolves to
C8_Resolved ==
    self # None => self.id_tensor_name = (IF "ids" \in ds.tensors THEN "ids" ELSE "id")

\* the ids add_texts returned are the ids of the rows the engine inserted
C8_ReturnsEngineIds ==
    LET m == Len(engineLog[1].text)
    IN ret.val = List([i \in 1..m |-> ds.rows[Len(ds.rows) - m + i].id])

\* C8: the id field name is 'ids' when the dataset has a field 'ids' and 'id'
\* otherwise, and every add_texts call given ids passes them to the engine's
\* insert under that name and no other, and returns the engine's result.
C8_IdsPassedUnderResolvedName ==
    /\ C8_Resolved
    /\ (pc = "returned" /\ call.op = "add_texts" /\ call.ids # None /\ NTexts > 0)
       => /\ ret.kind = "ok"
          /\ engineLog # <<>>
          /\ engineLog[1].kwargs = [key \in {self.id_tensor_name} |-> call.ids]
          /\ C8_ReturnsEngineIds

\* C9: once constructed, no call changes the dataset handle, the embedding
\* provider or the id field name the adapter holds, whether it returns or
\* raises.
C9_ConfigurationFrozen ==
    [][pc # "new" => self' = self]_vars

\* a search given an embedding function of its own has returned, and the
\* adapter still holds the provider it was constructed with
C9_Witness ==
    /\ pc = "returned"
    /\ call.op = "similarity_search"
    /\ DictGet(call.kw, "embedding_function") = Callable1
    /\ call.query = Str("q")
    /\ ret.kind = "ok"
    /\ self = [vectorstore |-> "handle", embedding_function |-> Provider1,
               id_tensor_name |-> "ids"]

\* while and after the merge loop runs over n metadata and n embedding rows:
\* the iteration count, which every iteration raises by one, never exceeds n
\* and is n when the loop has ended; 'embedding' of the i-th mapping is the
\* i-th embedding once iteration i has run, the other keys are kept, and the
\* first n entries of the list stay in their order while entries are appended
C10_LoopInvariant ==
    loc # NoLoc
    => LET n == Len(loc.embeddings)
       IN /\ Len(loc.heap) = n
          /\ loc.i <= n
          /\ Len(loc.metadatas) = n + loc.i
          /\ \A j \in 1..n : loc.metadatas[j] = j
          /\ \A j \in 1..loc.i :
                /\ loc.heap[j]["embedding"] = loc.embeddings[j]
                /\ loc.embeddings[j] = ds.rows[j].embedding
          /\ \A j \in 1..n : \A key \in DOMAIN ds.rows[j].metadata :
                loc.heap[j][key] = ds.rows[j].metadata[key]
          /\ (pc = "returned" => loc.i = n)

\* C10: the merge loop of _search terminates for every engine result with n
\* metadata and n embedding rows, though it appends to the list it iterates:
\* once entered it ends, after exactly n iterations, with 'embedding' of the
\* i-th mapping set to the i-th embedding and the first n entries of the list
\* in their original order.
C10_MergeLoopTerminates ==
    /\ []C10_LoopInvariant
    /\ (pc = "merge") ~> (pc = "returned" /\ loc # NoLoc /\ loc.i = Len(loc.embeddings))

\* the loop has ended after two iterations over two rows
C10_Witness ==
    /\ pc = "returned"
    /\ loc # NoLoc
    /\ Len(loc.embeddings) = 2
    /\ loc.i = 2
    /\ Len(loc.metadatas) = 4

====
